---- MODULE Spec2Model ----
(***************************************************************************)
(* A model of the tlru crate: the intrusive doubly-linked Queue            *)
(* (src/src/queue.rs), the TLRUCache built on it (src/src/tlru.rs) and the *)
(* UniqueTLRUCache wrapper (src/src/unique_tlru.rs).                       *)
(*                                                                         *)
(* Nodes live in an explicit heap of addresses.  Box::into_raw takes a     *)
(* non-live address (any one: the allocator may hand a released address    *)
(* out again), Box::from_raw followed by a drop releases it.  A released   *)
(* cell keeps its bytes until it is allocated again; an operation that     *)
(* dereferences a released cell sets `fault` in its outcome.  Releasing a  *)
(* released cell (double free) sets `dfree` and has two outcomes: it goes  *)
(* unnoticed and the operation carries on, or the allocator aborts the     *)
(* program.  A call that never returns (an abort, a loop without end) is   *)
(* recorded in `halted`, after which no operation runs.                    *)
(***************************************************************************)
EXTENDS Integers, Sequences, FiniteSets, TLC

\* ---- bounds of the model ----
NumKeys == 3
NumAddrs == 3
NumValues == 2
NumUniqueValues == 3
MaxTime == 2
MaxExpiry == 1
MaxGen == 2
ScenarioKeys == 4        \* the scripted run: keys A, B, C, D
MaxScenarioTime == 49    \* the scripted run: last clock reading, in tenths of a second
ScenarioExpiry == 20     \* Duration::from_secs(2), in tenths of a second

NULL == 0
None == -1

Keys == 1..NumKeys
Addrs == 1..NumAddrs
Values == 0..(NumValues - 1)
UniqueValues == 0..(NumUniqueValues - 1)

\* Key::id of the model's values: values 2i and 2i+1 share the identity i.
ValueId(v) == v \div 2
Ids == {ValueId(v) : v \in Values \cup UniqueValues}

VARIABLES
    now,        \* the clock (Instant::now())
    expiry,     \* TLRUCache.expiry
    head,       \* Queue.head
    tail,       \* Queue.tail
    heap,       \* the nodes: Node.prev, Node.next, Node.value (a Record), and whether allocated
    store,      \* TLRUCache.store: key -> node address, NULL when absent
    value_ids,  \* UniqueTLRUCache.value_ids: identity -> key, NULL when absent
    halted,     \* a call never returned
    script,     \* the clock readings at the operations of the scripted run so far
    detached,   \* a client of the bare Queue: the handles it has removed and still owns
    pending     \* an insert_new under way: <<>> when none, else <<value, last key generated>>

\* What only the scripted run, the bare Queue or the stepwise insert_new change.
aux == <<script, detached, pending>>

vars == <<now, expiry, head, tail, heap, store, value_ids, halted, script, detached, pending>>

\* Node<Record<K, V>>: Record.key, Record.value, Record.access, prev, next.
EmptyCell == [live |-> FALSE, key |-> NULL, value |-> 0, access |-> 0,
              prev |-> NULL, next |-> NULL]

\* The mutable state of the cache as one record, as the operations see it.
\* fault: the operation under way has dereferenced a released node.
\* dfree: the operation under way has released a released node.
Machine ==
    [head |-> head, tail |-> tail, heap |-> heap, store |-> store,
     value_ids |-> value_ids, halted |-> halted, fault |-> FALSE, dfree |-> FALSE]

\* ---- memory ----

\* A dereference of address a.
Deref(m, a) == IF m.heap[a].live THEN m ELSE [m EXCEPT !.fault = TRUE]

SetNext(m, a, n) == [Deref(m, a) EXCEPT !.heap[a].next = n]

SetPrev(m, a, p) == [Deref(m, a) EXCEPT !.heap[a].prev = p]

\* Box::into_raw(Box::new(Node {value, prev: null, next: null})) at address a.
Alloc(m, a, k, v, t) ==
    [m EXCEPT !.heap[a] = [live |-> TRUE, key |-> k, value |-> v, access |-> t,
                           prev |-> NULL, next |-> NULL]]

\* Dropping a Box<Node>: the address is released, its bytes stay.
Release(m, a) ==
    IF m.heap[a].live
    THEN [m EXCEPT !.heap[a].live = FALSE]
    ELSE [m EXCEPT !.fault = TRUE, !.dfree = TRUE]

\* ---- Queue ----

push_node(m, new_tail) ==
    LET m1 == IF m.tail # NULL
              THEN SetPrev(SetNext(m, m.tail, new_tail), new_tail, m.tail)
              ELSE [m EXCEPT !.head = new_tail]
    IN  [m1 EXCEPT !.tail = new_tail]

push(m, a, k, v, t) == push_node(Alloc(m, a, k, v, t), a)

\* The head's Record, or None.
peek(m) == IF m.head = NULL THEN None ELSE m.head

\* Unlinks the head; the caller owns (and drops) the returned Box.
pop_node(m) ==
    IF m.head = NULL
    THEN m
    ELSE LET nxt == m.heap[m.head].next
         IN  [Deref(m, m.head) EXCEPT !.head = nxt,
                                      !.tail = IF nxt = NULL THEN NULL ELSE @]

Queue_remove(m, elem) ==
    LET m0 == Deref(m, elem)
        m1 == IF m0.heap[elem].prev # NULL
              THEN SetNext(m0, m0.heap[elem].prev, m0.heap[elem].next)
              ELSE m0
        m2 == IF m1.heap[elem].next # NULL
              THEN SetPrev(m1, m1.heap[elem].next, m1.heap[elem].prev)
              ELSE m1
        m3 == IF m2.tail = elem THEN [m2 EXCEPT !.tail = m2.heap[elem].prev] ELSE m2
        m4 == IF m3.head = elem THEN [m3 EXCEPT !.head = m3.heap[elem].next] ELSE m3
    IN  SetNext(SetPrev(m4, elem, NULL), elem, NULL)

\* The addresses of the heap m is over.
AddrsOf(m) == DOMAIN m.heap

\* Queue::iter: the addresses visited from head along next.  A walk over a
\* cyclic chain does not end; it is cut after one element more than there
\* are addresses.
RECURSIVE Walk(_, _, _)
Walk(m, a, fuel) ==
    IF a = NULL \/ fuel = 0 THEN <<>>
    ELSE <<a>> \o Walk(m, m.heap[a].next, fuel - 1)

iter(m) == Walk(m, m.head, Cardinality(AddrsOf(m)) + 1)

\* ---- TLRUCache ----

\* An operation's outcome: the state it leaves and what it returns.
Outcome(m, r) == [m |-> m, ret |-> r]

TLRU_insert(m, key, value, a, t) ==
    IF m.store[key] = NULL
    THEN [push(m, a, key, value, t) EXCEPT !.store[key] = a]
    ELSE LET old == m.store[key]
             m1 == [Deref(m, old) EXCEPT !.heap[old].access = t]
         IN  push_node(Queue_remove(m1, old), old)

\* The key insert_new settles on when the generator yields gen[1], gen[2], ...:
\* the first one the store does not contain (NULL: none of them).
RECURSIVE GeneratedKey(_, _)
GeneratedKey(m, gen) ==
    IF gen = <<>> THEN NULL
    ELSE IF m.store[Head(gen)] = NULL THEN Head(gen)
    ELSE GeneratedKey(m, Tail(gen))

TLRU_insert_new(m, gen, value, a, t) ==
    LET key == GeneratedKey(m, gen)
    IN  Outcome([push(m, a, key, value, t) EXCEPT !.store[key] = a], key)

TLRU_fetch(m, key, t) ==
    IF m.store[key] = NULL
    THEN Outcome(m, None)
    ELSE LET old == m.store[key]
             m1 == [Deref(m, old) EXCEPT !.heap[old].access = t]
             m2 == push_node(Queue_remove(m1, old), old)
         IN  Outcome(m2, m2.heap[old].value)

\* Mutation of TLRU_remove: an absent key evicts the head instead of nothing.
TLRU_remove_absent_pops(m, key) ==
    IF m.store[key] = NULL
    THEN Outcome(pop_node(m), None)
    ELSE LET old == m.store[key]
             m1 == Queue_remove([m EXCEPT !.store[key] = NULL], old)
         IN  Outcome(Release(m1, old), m1.heap[old].value)

TLRU_remove(m, key) ==
    IF m.store[key] = NULL
    THEN Outcome(m, None)
    ELSE LET old == m.store[key]
             m1 == Queue_remove([m EXCEPT !.store[key] = NULL], old)
         IN  Outcome(Release(m1, old), m1.heap[old].value)

\* Record.access.elapsed() >= expiry, for the node at address a.
Expired(m, a, t, exp) == t - m.heap[a].access >= exp

\* store.remove(&key) for a key read from a node.
StoreRemove(m, key) == IF key \in DOMAIN m.store THEN [m EXCEPT !.store[key] = NULL] ELSE m

\* The loop of vacuum, `left` iterations from finding that it never ends: the
\* links it follows do not change, so more pops than there are addresses go
\* round a cycle.
RECURSIVE vacuum_loop(_, _, _, _)
vacuum_loop(m, t, exp, left) ==
    IF peek(m) = None THEN m
    ELSE LET h == m.head
             m0 == Deref(m, h)
         IN  IF ~Expired(m0, h, t, exp) THEN m0
             ELSE IF left = 0 THEN [m0 EXCEPT !.halted = TRUE]
             ELSE LET m1 == Release(pop_node(m0), h)
                      m2 == StoreRemove(m1, m0.heap[h].key)
                  IN  IF m2.halted THEN m2 ELSE vacuum_loop(m2, t, exp, left - 1)

\* Mutation of vacuum: an `if` for the `while`, at most one eviction.
vacuum_once(m, t, exp) ==
    IF peek(m) = None \/ ~Expired(Deref(m, m.head), m.head, t, exp) THEN m
    ELSE StoreRemove(Release(pop_node(Deref(m, m.head)), m.head), m.heap[m.head].key)

vacuum(m, t, exp) == vacuum_loop(m, t, exp, Cardinality(AddrsOf(m)))

\* ---- UniqueTLRUCache ----

\* TLRUCache::vacuum_callback(on_evict) with the callback of
\* UniqueTLRUCache::vacuum: value_ids.remove(&rec.value.id()) per evicted Record.
RECURSIVE vacuum_callback_loop(_, _, _, _)
vacuum_callback_loop(m, t, exp, left) ==
    IF peek(m) = None THEN m
    ELSE LET h == m.head
             m0 == Deref(m, h)
         IN  IF ~Expired(m0, h, t, exp) THEN m0
             ELSE IF left = 0 THEN [m0 EXCEPT !.halted = TRUE]
             ELSE LET m1 == Release(pop_node(m0), h)
                      m2 == StoreRemove(m1, m0.heap[h].key)
                      m3 == [m2 EXCEPT !.value_ids[ValueId(m0.heap[h].value)] = NULL]
                  IN  IF m3.halted THEN m3
                      ELSE vacuum_callback_loop(m3, t, exp, left - 1)

vacuum_callback(m, t, exp) == vacuum_callback_loop(m, t, exp, Cardinality(AddrsOf(m)))

Unique_insert_new(m, gen, value, a, t) ==
    LET value_id == ValueId(value)
        existing_id == m.value_ids[value_id]
        f == TLRU_fetch(m, existing_id, t)
    IN  IF existing_id # NULL /\ f.ret # None
        THEN Outcome(f.m, existing_id)
        ELSE LET m1 == [m EXCEPT !.value_ids[value_id] = NULL]
                 r == TLRU_insert_new(m1, gen, value, a, t)
             IN  Outcome([r.m EXCEPT !.value_ids[value_id] = r.ret], r.ret)

\* insert_new returns the key of a live entry of the same identity: no allocation.
Deduplicates(m, value) ==
    LET existing_id == m.value_ids[ValueId(value)]
    IN  existing_id # NULL /\ m.store[existing_id] # NULL

Unique_fetch(m, key, t) == TLRU_fetch(m, key, t)

Unique_remove(m, key) ==
    LET r == TLRU_remove(m, key)
    IN  IF r.ret = None THEN r
        ELSE Outcome([r.m EXCEPT !.value_ids[ValueId(r.ret)] = NULL], r.ret)

Unique_remove_value(m, value) ==
    LET key == m.value_ids[ValueId(value)]
    IN  IF key = NULL THEN Outcome(m, None)
        ELSE TLRU_remove([m EXCEPT !.value_ids[ValueId(value)] = NULL], key)

Unique_vacuum(m, t, exp) == vacuum_callback(m, t, exp)

\* ---- the state machine ----

\* The allocated nodes.
Live(m) == {a \in AddrsOf(m) : m.heap[a].live}

RECURSIVE NextClosure(_, _)
NextClosure(m, R) ==
    LET R2 == R \cup ({m.heap[a].next : a \in R} \ {NULL})
    IN  IF R2 = R THEN R ELSE NextClosure(m, R2)

\* The released nodes that can still be read: those a chain of next links
\* leads to from head or from a live node.  Every other released node is only
\* ever written (through the prev of a live node, or through tail) until it is
\* allocated anew, which overwrites it whole; and no operation reads the prev
\* of a released node.  What can never be read is dropped from the state.
Collect(m) ==
    IF \A a \in AddrsOf(m) : m.heap[a].live \/ m.heap[a] = EmptyCell THEN m
    ELSE LET R == NextClosure(m, ({m.head} \cup {m.store[k] : k \in DOMAIN m.store}
                                     \cup Live(m)) \ {NULL})
         IN  [m EXCEPT !.heap = [a \in AddrsOf(m) |->
                 IF m.heap[a].live THEN m.heap[a]
                 ELSE IF a \in R THEN [m.heap[a] EXCEPT !.prev = NULL]
                 ELSE EmptyCell]]

\* The addresses some pointer holds.
Referenced(m) ==
    ({m.head, m.tail} \cup {m.store[k] : k \in DOMAIN m.store}
        \cup {m.heap[a].prev : a \in AddrsOf(m)}
        \cup {m.heap[a].next : a \in AddrsOf(m)}) \ {NULL}

\* What the allocator may return: a released address that is still pointed to,
\* or an address nothing points to (these are interchangeable: the lowest).
FreeAddrsOf(m) ==
    LET free   == AddrsOf(m) \ Live(m)
        unused == free \ Referenced(m)
    IN  (free \cap Referenced(m)) \cup {a \in unused : \A b \in unused : a <= b}

FreeAddrs == FreeAddrsOf(Machine)

\* What the key generator yields during one insert_new: keys the store holds
\* (collisions), then one it does not hold.
GenSeqsOf(m) ==
    {g \in UNION {[1..n -> Keys] : n \in 1..MaxGen} :
        /\ m.store[g[Len(g)]] = NULL
        /\ \A i \in 1..(Len(g) - 1) : m.store[g[i]] # NULL}

GenSeqs == GenSeqsOf(Machine)

\* The operation that leaves m0 returns, or (after a double free) the
\* allocator has aborted the program in the middle of it.
Commit(m0) ==
    \E m \in {Collect(m0)} :
        \/ /\ head' = m.head
           /\ tail' = m.tail
           /\ heap' = m.heap
           /\ store' = m.store
           /\ value_ids' = m.value_ids
           /\ halted' = m.halted
           /\ UNCHANGED <<now, expiry, aux>>
        \/ /\ m.dfree
           /\ halted' = TRUE
           /\ UNCHANGED <<now, expiry, head, tail, heap, store, value_ids, aux>>

\* TLRUCache::new(expiry) / UniqueTLRUCache::new(expiry), the clock at zero.
Init ==
    /\ now = 0
    /\ expiry \in 0..MaxExpiry
    /\ head = NULL
    /\ tail = NULL
    /\ heap = [a \in Addrs |-> EmptyCell]
    /\ store = [k \in Keys |-> NULL]
    /\ value_ids = [i \in Ids |-> NULL]
    /\ halted = FALSE
    /\ script = <<>>
    /\ detached = {}
    /\ pending = <<>>

\* The clock advances (MockClock::advance, or time passing).
Tick ==
    /\ ~halted
    /\ now < MaxTime
    /\ now' = now + 1
    /\ UNCHANGED <<expiry, head, tail, heap, store, value_ids, halted, aux>>

Insert ==
    /\ ~halted
    /\ \E key \in Keys, value \in Values :
         IF store[key] = NULL
         THEN \E a \in FreeAddrs :
                Commit(TLRU_insert(Machine, key, value, a, now))
         ELSE Commit(TLRU_insert(Machine, key, value, NULL, now))

InsertNew ==
    /\ ~halted
    /\ \E gen \in GenSeqs, value \in Values, a \in FreeAddrs :
         Commit(TLRU_insert_new(Machine, gen, value, a, now).m)

Fetch ==
    /\ ~halted
    /\ \E key \in Keys : Commit(TLRU_fetch(Machine, key, now).m)

Remove ==
    /\ ~halted
    /\ \E key \in Keys :
         Commit(TLRU_remove(Machine, key).m)

Vacuum ==
    /\ ~halted
    /\ Commit(vacuum(Machine, now, expiry))

Next == Tick \/ Insert \/ InsertNew \/ Fetch \/ Remove \/ Vacuum

Spec == Init /\ [][Next]_vars

UInsertNew ==
    /\ ~halted
    /\ \E value \in UniqueValues :
         IF Deduplicates(Machine, value)
         THEN Commit(Unique_insert_new(Machine, <<>>, value, NULL, now).m)
         ELSE \E gen \in GenSeqs, a \in FreeAddrs :
                Commit(Unique_insert_new(Machine, gen, value, a, now).m)

UFetch ==
    /\ ~halted
    /\ \E key \in Keys : Commit(Unique_fetch(Machine, key, now).m)

URemove ==
    /\ ~halted
    /\ \E key \in Keys :
         Commit(Unique_remove(Machine, key).m)

URemoveValue ==
    /\ ~halted
    /\ \E value \in UniqueValues :
         Commit(Unique_remove_value(Machine, value).m)

UVacuum ==
    /\ ~halted
    /\ Commit(Unique_vacuum(Machine, now, expiry))

NextU == Tick \/ UInsertNew \/ UFetch \/ URemove \/ URemoveValue \/ UVacuum

SpecU == Init /\ [][NextU]_vars

\* ---- the scripted run of test_vacuum ----
\* insert A, insert B, insert C, vacuum, fetch(B), vacuum, insert D, vacuum,
\* vacuum, vacuum, with the clock advanced at most once between two operations.
\* Keys A, B, C, D are 1, 2, 3, 4, each with its own number as value; times are
\* in tenths of a second.

Delays == {5, 7, 17}

ScriptCommit(m0) ==
    \E m \in {Collect(m0)} :
        /\ script' = Append(script, now)
        /\ UNCHANGED <<now, expiry, detached, pending>>
        /\ \/ /\ head' = m.head
              /\ tail' = m.tail
              /\ heap' = m.heap
              /\ store' = m.store
              /\ value_ids' = m.value_ids
              /\ halted' = m.halted
           \/ /\ m.dfree
              /\ halted' = TRUE
              /\ UNCHANGED <<head, tail, heap, store, value_ids>>

InitScenario ==
    /\ now = 0
    /\ expiry = ScenarioExpiry
    /\ head = NULL
    /\ tail = NULL
    /\ heap = [a \in 1..ScenarioKeys |-> EmptyCell]
    /\ store = [k \in 1..ScenarioKeys |-> NULL]
    /\ value_ids = [i \in Ids |-> NULL]
    /\ halted = FALSE
    /\ script = <<>>
    /\ detached = {}
    /\ pending = <<>>

\* MockClock::advance, once between two operations.
SAdvance ==
    /\ ~halted
    /\ Len(script) \in 1..9
    /\ now = script[Len(script)]
    /\ \E d \in Delays :
         /\ now + d <= MaxScenarioTime
         /\ now' = now + d
    /\ UNCHANGED <<expiry, head, tail, heap, store, value_ids, halted, aux>>

\* The key the script inserts as its operation number n + 1.
ScriptKey(n) == CASE n = 0 -> 1 [] n = 1 -> 2 [] n = 2 -> 3 [] n = 6 -> 4

SInsert ==
    /\ ~halted
    /\ Len(script) \in {0, 1, 2, 6}
    /\ \E key \in {ScriptKey(Len(script))}, a \in FreeAddrs :
         ScriptCommit(TLRU_insert_new(Machine, <<key>>, key, a, now).m)

SFetch ==
    /\ ~halted
    /\ Len(script) = 4
    /\ ScriptCommit(TLRU_fetch(Machine, 2, now).m)

SVacuum ==
    /\ ~halted
    /\ Len(script) \in {3, 5, 7, 8, 9}
    /\ ScriptCommit(vacuum(Machine, now, expiry))

NextScenario == SAdvance \/ SInsert \/ SFetch \/ SVacuum

SpecScenario == InitScenario /\ [][NextScenario]_vars

\* ---- the bare Queue, driven by a client that keeps its handles ----

\* The handles of the elements the client has pushed and not removed or popped.
Linked == Live(Machine) \ detached

QueueCommit(m0, d) ==
    \E m \in {Collect(m0)} :
        /\ UNCHANGED <<now, expiry, script, pending>>
        /\ \/ /\ head' = m.head
              /\ tail' = m.tail
              /\ heap' = m.heap
              /\ store' = m.store
              /\ value_ids' = m.value_ids
              /\ halted' = m.halted
              /\ detached' = d
           \/ /\ m.dfree
              /\ halted' = TRUE
              /\ UNCHANGED <<head, tail, heap, store, value_ids, detached>>

\* Queue::new().
InitQueue ==
    /\ now = 0
    /\ expiry = 0
    /\ head = NULL
    /\ tail = NULL
    /\ heap = [a \in Addrs |-> EmptyCell]
    /\ store = [k \in Keys |-> NULL]
    /\ value_ids = [i \in Ids |-> NULL]
    /\ halted = FALSE
    /\ script = <<>>
    /\ detached = {}
    /\ pending = <<>>

QPush ==
    /\ ~halted
    /\ \E v \in Values, a \in FreeAddrs :
         QueueCommit(push(Machine, a, NULL, v, 0), detached)

\* remove(elem) of a linked element; the client keeps the handle.
QRemove ==
    /\ ~halted
    /\ \E elem \in Linked :
         QueueCommit(Queue_remove(Machine, elem), detached \cup {elem})

\* push_node(elem) of a handle the client has removed.
QPushNode ==
    /\ ~halted
    /\ \E elem \in detached :
         QueueCommit(push_node(Machine, elem), detached \ {elem})

\* pop_node(), the returned Box dropped.
QPopNode ==
    /\ ~halted
    /\ head # NULL
    /\ QueueCommit(Release(pop_node(Machine), head), detached)

\* The client frees an element it has removed (Box::from_raw(elem), dropped).
QDrop ==
    /\ ~halted
    /\ \E elem \in detached :
         QueueCommit(Release(Machine, elem), detached \ {elem})

NextQueue == QPush \/ QRemove \/ QPushNode \/ QPopNode \/ QDrop

SpecQueue == InitQueue /\ [][NextQueue]_vars

\* ---- TLRUCache::insert_new, one call of the key generator at a time ----

GeneratorCommit(m0, p) ==
    \E m \in {Collect(m0)} :
        /\ UNCHANGED <<now, expiry, script, detached>>
        /\ \/ /\ head' = m.head
              /\ tail' = m.tail
              /\ heap' = m.heap
              /\ store' = m.store
              /\ value_ids' = m.value_ids
              /\ halted' = m.halted
              /\ pending' = p
           \/ /\ m.dfree
              /\ halted' = TRUE
              /\ UNCHANGED <<head, tail, heap, store, value_ids, pending>>

\* insert_new(generate_random_key, value) is entered: `let mut key =
\* generate_random_key()`.  The keys are those of the model, so the call is
\* made while one of them is free (a generator that can yield an absent key).
GCall ==
    /\ ~halted
    /\ pending = <<>>
    /\ \E k \in Keys : store[k] = NULL
    /\ \E v \in Values, k \in Keys : pending' = <<v, k>>
    /\ UNCHANGED <<now, expiry, head, tail, heap, store, value_ids, halted, script, detached>>

\* `while self.store.contains_key(&key) { key = generate_random_key(); }`:
\* the generator yields a key the store holds.
GCollide ==
    /\ ~halted
    /\ pending # <<>>
    /\ store[pending[2]] # NULL
    /\ \E k \in Keys :
         /\ store[k] # NULL
         /\ pending' = <<pending[1], k>>
    /\ UNCHANGED <<now, expiry, head, tail, heap, store, value_ids, halted, script, detached>>

\* The same loop: the generator yields a key the store does not hold.
GFresh ==
    /\ ~halted
    /\ pending # <<>>
    /\ store[pending[2]] # NULL
    /\ \E k \in Keys :
         /\ store[k] = NULL
         /\ pending' = <<pending[1], k>>
    /\ UNCHANGED <<now, expiry, head, tail, heap, store, value_ids, halted, script, detached>>

\* Mutation of GFinish: the loop goes on although the key is absent.
GFinish_never ==
    /\ ~halted
    /\ pending # <<>>
    /\ store[pending[2]] = NULL
    /\ \E k \in Keys : pending' = <<pending[1], k>>
    /\ UNCHANGED <<now, expiry, head, tail, heap, store, value_ids, halted, script, detached>>

\* The loop is left with an absent key: the Record is pushed, indexed, and the
\* key returned.
GFinish ==
    /\ ~halted
    /\ pending # <<>>
    /\ store[pending[2]] = NULL
    /\ \E a \in FreeAddrs :
         GeneratorCommit(TLRU_insert_new(Machine, <<pending[2]>>, pending[1], a, now).m, <<>>)

\* Between calls of insert_new: remove(key).
GRemove ==
    /\ ~halted
    /\ pending = <<>>
    /\ \E key \in Keys : GeneratorCommit(TLRU_remove(Machine, key).m, <<>>)

NextGenerator == GCall \/ GCollide \/ GFresh \/ GFinish \/ GRemove

\* The generator is fair (it yields an absent key in the end) and the call
\* goes on running.
SpecGenerator ==
    /\ Init
    /\ [][NextGenerator]_vars
    /\ WF_vars(GFresh)
    /\ WF_vars(GFinish)

\* ---- observations ----

\* TLRUCache::iter: the Records it yields, front to back.
Entries(m) == [i \in 1..Len(iter(m)) |->
                 [key |-> m.heap[iter(m)[i]].key, value |-> m.heap[iter(m)[i]].value,
                  access |-> m.heap[iter(m)[i]].access]]

Range(f) == {f[i] : i \in DOMAIN f}

StoreKeys(m) == {k \in DOMAIN m.store : m.store[k] # NULL}

\* The queue is a proper list of live nodes: the walk from head ends, on tail,
\* and visits no node twice.
ProperList(m) ==
    LET it == iter(m)
    IN  /\ Len(it) <= Cardinality(AddrsOf(m))
        /\ \A i, j \in 1..Len(it) : i # j => it[i] # it[j]
        /\ \A i \in 1..Len(it) : m.heap[it[i]].live
        /\ (m.head = NULL) <=> (m.tail = NULL)
        /\ Len(it) > 0 => it[Len(it)] = m.tail

\* I1: index and order in bijection.
Bijection(m) ==
    /\ ProperList(m)
    /\ StoreKeys(m) = {m.heap[a].key : a \in Range(iter(m))}
    /\ \A a, b \in Range(iter(m)) : m.heap[a].key = m.heap[b].key => a = b
    /\ \A k \in StoreKeys(m) :
         /\ m.heap[m.store[k]].live
         /\ m.heap[m.store[k]].key = k
         /\ m.store[k] \in Range(iter(m))

\* I2: last_access non-decreasing front to back.
Sorted(m) ==
    \A i \in 1..(Len(iter(m)) - 1) :
        m.heap[iter(m)[i]].access <= m.heap[iter(m)[i + 1]].access

\* C1. After any sequence of insert, insert_new, fetch, remove and vacuum with
\* clock advances, the keys of the index are the keys of the linked Records,
\* each key is in exactly one linked Record, and each stored handle refers to
\* the live element holding its key.
C1_Bijection == ~halted => Bijection(Machine)

\* C2. After every operation the last_access timestamps read front to back
\* through iter() are non-decreasing.
C2_Sorted == ~halted => Sorted(Machine)

\* The entries of E other than key k's, in E's order.
Others(E, k) == LET NotK(e) == e.key # k IN SelectSeq(E, NotK)

Fresh(e) == now - e.access < expiry

\* C3. Immediately after vacuum() the surviving entries are exactly those with
\* now - last_access < expiry, in their order and with their values and
\* timestamps; the ones removed had now - last_access >= expiry.
C3_VacuumExact ==
    ~halted =>
        \A m2 \in {vacuum(Machine, now, expiry)} :
            ~m2.halted =>
                /\ Entries(m2) = SelectSeq(Entries(Machine), Fresh)
                /\ \A k \in StoreKeys(m2) : now - m2.heap[m2.store[k]].access < expiry

\* C4. fetch(key) and insert(key, v) of a present key make its Record the last
\* of the iteration order with last_access = now, fetch returns the stored
\* value, and the key set and all other Records stay as they were.
C4_RefreshOnTouch ==
    ~halted =>
        \A k \in StoreKeys(Machine) :
            /\ \A f \in {TLRU_fetch(Machine, k, now)} :
                 /\ f.ret = heap[store[k]].value
                 /\ StoreKeys(f.m) = StoreKeys(Machine)
                 /\ Entries(f.m) = Others(Entries(Machine), k)
                        \o <<[key |-> k, value |-> heap[store[k]].value, access |-> now]>>
            /\ \A v \in Values : \A i \in {TLRU_insert(Machine, k, v, NULL, now)} :
                 /\ StoreKeys(i) = StoreKeys(Machine)
                 /\ Others(Entries(i), k) = Others(Entries(Machine), k)
                 /\ Len(Entries(i)) = Len(Others(Entries(Machine), k)) + 1
                 /\ Entries(i)[Len(Entries(i))].key = k
                 /\ Entries(i)[Len(Entries(i))].access = now

\* C5. insert(key, value) of a present key overwrites the Record's value: a
\* fetch(key) issued afterwards returns the newly inserted value.
C5_UpsertOverwrites ==
    ~halted =>
        \A k \in StoreKeys(Machine), v \in Values :
            TLRU_fetch(TLRU_insert(Machine, k, v, NULL, now), k, now).ret = v

\* C9. insert_new returns a key that was not in the index, adds exactly one
\* Record {key, value, now} at the tail, whatever keys the generator yields
\* first, and leaves every other Record and their order unchanged.
C9_InsertNewCreates ==
    ~halted =>
        \A gen \in GenSeqs, v \in Values, a \in FreeAddrs :
            \A r \in {TLRU_insert_new(Machine, gen, v, a, now)} :
                /\ r.ret \notin StoreKeys(Machine)
                /\ StoreKeys(r.m) = StoreKeys(Machine) \cup {r.ret}
                /\ Entries(r.m) = Entries(Machine)
                       \o <<[key |-> r.ret, value |-> v, access |-> now]>>

\* C10. remove(key) of a present key returns the stored value, deletes the key
\* from the index and its Record from the queue, leaves the other Records and
\* their order unchanged, and a second remove(key) returns absent.
C10_Remove ==
    ~halted =>
        \A k \in StoreKeys(Machine) :
            \A r \in {TLRU_remove(Machine, k)} :
                /\ r.ret = heap[store[k]].value
                /\ StoreKeys(r.m) = StoreKeys(Machine) \ {k}
                /\ Entries(r.m) = Others(Entries(Machine), k)
                /\ TLRU_remove(r.m, k).ret = None

\* The keys whose Record's value has identity id.
KeysOfId(m, id) == {k \in StoreKeys(m) : ValueId(m.heap[m.store[k]].value) = id}

\* C6. UniqueTLRUCache::insert_new of a value whose identity is that of a value
\* still in the cache returns that entry's key, creates no entry, keeps the
\* stored value, and moves the entry to the tail with last_access = now.
C6_Dedup ==
    ~halted =>
        \A k \in StoreKeys(Machine), v2 \in UniqueValues :
            ValueId(v2) = ValueId(heap[store[k]].value) =>
                \A gen \in GenSeqs \cup {<<>>}, a \in FreeAddrs \cup {NULL} :
                    (Deduplicates(Machine, v2) \/ (gen # <<>> /\ a # NULL)) =>
                        \A r \in {Unique_insert_new(Machine, gen, v2, a, now)} :
                            /\ r.ret = k
                            /\ StoreKeys(r.m) = StoreKeys(Machine)
                            /\ Entries(r.m) = Others(Entries(Machine), k)
                                   \o <<[key |-> k, value |-> heap[store[k]].value,
                                         access |-> now]>>

\* What insert_new of value v does in state m1 for every run of the generator:
\* it returns a key the cache did not hold, under which the cache now holds v,
\* and value_ids maps v's identity to that key.
CreatesEntry(m1, v) ==
    \A gen \in GenSeqsOf(m1), a \in FreeAddrsOf(m1) :
        \A r \in {Unique_insert_new(m1, gen, v, a, now)} :
            /\ r.ret \notin StoreKeys(m1)
            /\ r.ret \in StoreKeys(r.m)
            /\ r.m.heap[r.m.store[r.ret]].live
            /\ r.m.heap[r.m.store[r.ret]].key = r.ret
            /\ TLRU_fetch(r.m, r.ret, now).ret = v
            /\ r.m.value_ids[ValueId(v)] = r.ret

\* No Record of identity id is left: none in the index, none in a live node.
Destroyed(m, id) ==
    /\ KeysOfId(m, id) = {}
    /\ \A a \in Live(m) : ValueId(m.heap[a].value) # id

\* C7. Once remove(key), remove_value(value) or vacuum() has destroyed the
\* entry backing an identity (so that no Record of that identity is left), the
\* next insert_new of a value of that identity, whatever ran in between,
\* creates a new entry holding the new value and records its key in value_ids.
C7_Cleanup ==
    ~halted =>
        \A v \in UniqueValues :
            Destroyed(Machine, ValueId(v)) => CreatesEntry(Machine, v)

\* C8. Between operations of the UniqueTLRUCache, whenever value_ids maps an
\* identity to a key, the cache holds that key and the value stored under it
\* has that identity.
C8_I3 ==
    ~halted =>
        \A id \in Ids :
            value_ids[id] # NULL =>
                /\ store[value_ids[id]] # NULL
                /\ heap[store[value_ids[id]]].live
                /\ heap[store[value_ids[id]]].key = value_ids[id]
                /\ ValueId(heap[store[value_ids[id]]].value) = id

\* C11. fetch(key) and remove(key) of a key the cache does not hold, and
\* remove_value(value) of an identity value_ids does not hold, return None,
\* touch no released node, and leave the index, the queue, every Record and
\* value_ids as they were.
C11_NotFound ==
    ~halted =>
        /\ \A k \in Keys \ StoreKeys(Machine) :
             /\ TLRU_fetch(Machine, k, now) = Outcome(Machine, None)
             /\ TLRU_remove(Machine, k) = Outcome(Machine, None)
             /\ Unique_fetch(Machine, k, now) = Outcome(Machine, None)
             /\ Unique_remove(Machine, k) = Outcome(Machine, None)
        /\ \A v \in UniqueValues :
             value_ids[ValueId(v)] = NULL =>
                Unique_remove_value(Machine, v) = Outcome(Machine, None)

\* Some keys and identities are held and others are not.
C11_Witness ==
    /\ ~halted
    /\ head # NULL
    /\ \E k \in Keys : store[k] = NULL
    /\ \E k \in Keys : store[k] # NULL
    /\ \E v \in UniqueValues : value_ids[ValueId(v)] = NULL
    /\ \E v \in UniqueValues : value_ids[ValueId(v)] # NULL

\* C12. Only vacuum evicts by time: whatever the clock shows, insert,
\* insert_new, fetch and remove(k2) with k2 # k leave a held key k in the
\* index with its value; and after fetch(k), which returns the value even when
\* the entry has expired, a vacuum at the same instant (expiry > 0) keeps k.
C12_OnlyVacuumEvicts ==
    ~halted =>
        \A k \in StoreKeys(Machine) :
            LET val == heap[store[k]].value
                Kept(m2) == k \in StoreKeys(m2) /\ TLRU_fetch(m2, k, now).ret = val
            IN  /\ \A k2 \in Keys, v \in Values :
                     IF store[k2] = NULL
                     THEN \A a \in FreeAddrs : Kept(TLRU_insert(Machine, k2, v, a, now))
                     ELSE Kept(TLRU_insert(Machine, k2, v, NULL, now))
                /\ \A gen \in GenSeqs, v \in Values, a \in FreeAddrs :
                     Kept(TLRU_insert_new(Machine, gen, v, a, now).m)
                /\ \A k2 \in Keys : Kept(TLRU_fetch(Machine, k2, now).m)
                /\ \A k2 \in Keys \ {k} : Kept(TLRU_remove(Machine, k2).m)
                /\ TLRU_fetch(Machine, k, now).ret = val
                /\ expiry > 0 =>
                     \A m2 \in {vacuum(TLRU_fetch(Machine, k, now).m, now, expiry)} :
                         ~m2.halted => Kept(m2)

\* The keys TLRUCache::iter yields, front to back.
Order == [i \in 1..Len(iter(Machine)) |-> heap[iter(Machine)[i]].key]

\* C13 as the spec states it: expiry 2 s; A at 0, B at 0.5, C at 1.0; vacuum
\* and fetch(B) at 1.0 give [A, C, B]; vacuum and insert D at 1.7 give
\* [C, B, D]; vacuum at 3.4 gives [D]; vacuum at 3.9 and at 4.4 give [].
C13_ScenarioAsStated ==
    /\ script = <<0, 5, 10, 10, 10>> => Order = <<1, 3, 2>>
    /\ script = <<0, 5, 10, 10, 10, 17, 17>> => Order = <<3, 2, 4>>
    /\ script = <<0, 5, 10, 10, 10, 17, 17, 34>> => Order = <<4>>
    /\ script = <<0, 5, 10, 10, 10, 17, 17, 34, 39>> => Order = <<>>
    /\ script = <<0, 5, 10, 10, 10, 17, 17, 34, 39, 44>> => Order = <<>>

\* C13, amended. At the stated times the vacuum at 1.7 evicts nothing (A is
\* 1.7 s old, expiry is 2 s) and inserting D gives [A, C, B, D]; the other
\* orders are as stated.  With the clock readings of test_vacuum (vacuum and
\* fetch(B) at 1.5, vacuum and insert D at 2.2, vacuums at 3.9, 4.4 and 4.9)
\* the orders are [A, C, B], [C, B, D], [D], [], [].
C13_Scenario ==
    /\ script = <<0, 5, 10, 10, 10>> => Order = <<1, 3, 2>>
    /\ script = <<0, 5, 10, 10, 10, 17, 17>> => Order = <<1, 3, 2, 4>>
    /\ script = <<0, 5, 10, 10, 10, 17, 17, 34>> => Order = <<4>>
    /\ script = <<0, 5, 10, 10, 10, 17, 17, 34, 39>> => Order = <<>>
    /\ script = <<0, 5, 10, 10, 10, 17, 17, 34, 39, 44>> => Order = <<>>
    /\ script = <<0, 5, 10, 15, 15>> => Order = <<1, 3, 2>>
    /\ script = <<0, 5, 10, 15, 15, 22, 22>> => Order = <<3, 2, 4>>
    /\ script = <<0, 5, 10, 15, 15, 22, 22, 39>> => Order = <<4>>
    /\ script = <<0, 5, 10, 15, 15, 22, 22, 39, 44>> => Order = <<>>
    /\ script = <<0, 5, 10, 15, 15, 22, 22, 39, 44, 49>> => Order = <<>>

\* The run at the stated times has been carried to its end.
C13_Witness ==
    /\ ~halted
    /\ script = <<0, 5, 10, 10, 10, 17, 17, 34, 39, 44>>
    /\ head = NULL

\* C14. After any sequence of UniqueTLRUCache operations no two Records of
\* the cache hold values of the same identity, every Record's identity is
\* mapped by value_ids to that Record's key, and iter() shows exactly one
\* entry per identity value_ids holds.
C14_OnePerIdentity ==
    ~halted =>
        /\ \A k1, k2 \in StoreKeys(Machine) :
             ValueId(heap[store[k1]].value) = ValueId(heap[store[k2]].value) => k1 = k2
        /\ \A k \in StoreKeys(Machine) : value_ids[ValueId(heap[store[k]].value)] = k
        /\ \A i, j \in 1..Len(Entries(Machine)) :
             ValueId(Entries(Machine)[i].value) = ValueId(Entries(Machine)[j].value) => i = j
        /\ {ValueId(e.value) : e \in Range(Entries(Machine))}
               = {id \in Ids : value_ids[id] # NULL}

\* C15. No operation of the cache (insert, insert_new, fetch, remove, vacuum)
\* reads or writes a field of a node whose storage has been released, nor
\* releases it again.
C15_NoUseAfterFree ==
    ~halted =>
        /\ \A k \in Keys, v \in Values :
             IF store[k] = NULL
             THEN \A a \in FreeAddrs : ~TLRU_insert(Machine, k, v, a, now).fault
             ELSE ~TLRU_insert(Machine, k, v, NULL, now).fault
        /\ \A gen \in GenSeqs, v \in Values, a \in FreeAddrs :
             ~TLRU_insert_new(Machine, gen, v, a, now).m.fault
        /\ \A k \in Keys : ~TLRU_fetch(Machine, k, now).m.fault
        /\ \A k \in Keys : ~TLRU_remove(Machine, k).m.fault
        /\ ~vacuum(Machine, now, expiry).fault

\* The queue m links exactly the elements L, doubly and in one chain.
WellFormed(m, L) ==
    LET it == iter(m)
    IN  /\ (m.head = NULL) <=> (m.tail = NULL)
        /\ m.head # NULL => m.heap[m.head].prev = NULL /\ m.heap[m.tail].next = NULL
        /\ Len(it) = Cardinality(L)
        /\ Range(it) = L
        /\ Len(it) > 0 => it[Len(it)] = m.tail
        /\ \A i \in 1..(Len(it) - 1) :
             m.heap[it[i]].next = it[i + 1] /\ m.heap[it[i + 1]].prev = it[i]

\* C16. In every state reachable by push, push_node of a detached handle,
\* remove and pop_node: head is null iff tail is; head.prev and tail.next are
\* null; next from head visits every linked element once and ends at tail;
\* adjacent elements point at each other.
C16_WellFormed == ~halted => WellFormed(Machine, Linked)

\* The sequence s without the element e.
Without(s, e) == LET NotE(x) == x # e IN SelectSeq(s, NotE)

\* C17. remove(handle) of a linked element (head, middle, tail or the only
\* one) takes exactly that element out of the iteration and keeps the order
\* of the rest, moves head and tail off it (both null when it was the only
\* element), clears its prev and next, and does not release it.
C17_RemoveLinked ==
    ~halted =>
        \A e \in Linked :
            \A m2 \in {Queue_remove(Machine, e)} :
                LET it == Without(iter(Machine), e)
                IN  /\ iter(m2) = it
                    /\ m2.head = (IF it = <<>> THEN NULL ELSE it[1])
                    /\ m2.tail = (IF it = <<>> THEN NULL ELSE it[Len(it)])
                    /\ m2.heap[e].prev = NULL
                    /\ m2.heap[e].next = NULL
                    /\ Live(m2) = Live(Machine)
                    /\ \A a \in Live(Machine) : m2.heap[a].value = heap[a].value

\* C18. For a linked element e, remove(e) followed by push_node(e) gives the
\* former iteration with e taken out and put last, under the same handle;
\* nothing is allocated or released and every payload stays.
C18_MoveToBack ==
    ~halted =>
        \A e \in Linked :
            \A m2 \in {push_node(Queue_remove(Machine, e), e)} :
                /\ iter(m2) = Append(Without(iter(Machine), e), e)
                /\ m2.tail = e
                /\ Live(m2) = Live(Machine)
                /\ \A a \in Live(Machine) : m2.heap[a].value = heap[a].value

\* C19. On a queue that holds elements pop_node takes out and returns the
\* front element, the one peek shows, and leaves the rest in their order, with
\* head and tail both null once the last is popped; on an empty queue it
\* returns None (head stays null) and changes nothing.
C19_PopFifo ==
    ~halted =>
        \A m1 \in {pop_node(Machine)} :
            IF Linked = {}
            THEN head = NULL /\ m1 = Machine
            ELSE /\ head # NULL
                 /\ peek(Machine) = head
                 /\ head = iter(Machine)[1]
                 /\ ~m1.fault
                 /\ iter(m1) = Tail(iter(Machine))
                 /\ Range(iter(m1)) = Linked \ {head}
                 /\ iter(m1) = <<>> => m1.head = NULL /\ m1.tail = NULL
                 /\ \A a \in Live(Machine) : m1.heap[a].value = heap[a].value

\* C20. With a generator that yields an absent key after finitely many keys
\* the store holds, every call of insert_new returns; while it retries it
\* inserts nothing and reports nothing.
C20_Terminates ==
    /\ (pending # <<>>) ~> (pending = <<>>)
    /\ [][pending # <<>> /\ pending' # <<>>
            => UNCHANGED <<head, tail, heap, store, value_ids, halted>>]_vars

\* insert_new is under way and the key just generated is one the store holds.
C20_Witness ==
    /\ ~halted
    /\ pending # <<>>
    /\ store[pending[2]] # NULL

====
